---- MODULE Spec2Model ----
(***************************************************************************)
(* Model of lib/NeuralFTR/trainer.py: the Trainer of an autoencoder-like   *)
(* network on 2D data.  The state machines of the module:                  *)
(*   Spec      Trainer.training, one action per statement group of the     *)
(*             loop body, with test() and get_reco_error() as call/return  *)
(*             pairs; calls repeat, with any arguments and log folder;     *)
(*   SpecInstance  Spec and the one call training(10050, 10050, 5000);     *)
(*   SpecGrid  Trainer.__init__ (grid spacing, difference kernels, padding)*)
(*             followed by smoothness_loss on small integer fields;        *)
(*   SpecReco  reconstruction_loss on small integer tensors.               *)
(* Real numbers are modelled exactly: a quotient is a pair num/den of      *)
(* integers; floating-point rounding is not modelled.  The arguments of    *)
(* training() are such pairs too: integers n/1 and floats like 1.5 = 3/2.  *)
(***************************************************************************)
EXTENDS Integers, Sequences, FiniteSets

\* ------------------------------------------------------------------ bounds
\* largest trainsteps argument of training()
MaxSteps == 4
\* largest test_every / save_every argument of training()
MaxEvery == 2
\* once the Trainer has trained, further calls are made while it has made
\* fewer than MaxAgain optimizer steps, and up to MaxAgain steps altogether:
\* half of what a first call may run
MaxAgain == MaxSteps \div 2
\* side length of the coordinate grid and of every field plane (H = W)
GridN == 2
\* batch size and per-sample feature count of the tensors handed to
\* reconstruction_loss
BatchN == 1
FeatN == 2

\* ------------------------------------------------------- program constants
\* best_so_far = 1e12 (trainer.py:131), in units of 1e7
BestInit == 100000

\* a float that is not a number: every ordered comparison with it is False
NaN == -1
\* a local that has not been assigned yet
None == -2

\* reconstruction errors get_reco_error can return (units of 1e7): the norm
\* ratio is any non-negative float, or nan (0/0 on an all-zero test set, or a
\* diverged network); 12345 has more digits than the :.3e record keeps
ErrVals == {0, 12345, 2 * BestInit, NaN}

VARIABLES
    pc,             \* position in training(): the statement group to run next
    trainsteps, test_every, save_every,   \* arguments of training(), each a
                    \* number [num, den] (see Whole, Half)
    tb,             \* self.tensorboard is a SummaryWriter (TB_MODE)
    has_modes,      \* the network's decoder exposes get_modes
    step,           \* loop variable of training()
    loss,           \* local loss of the current iteration
    test_loss,      \* local test_loss (torch.zeros(1) before the first test)
    reco_error,     \* local reco_error
    ret,            \* value computed inside test()/get_reco_error(), not yet returned
    best_so_far,    \* local best_so_far
    train_loss_log, test_loss_log,        \* the two logs, sequences of <<value, step>>
    params,         \* version of the network parameters (number of updates applied)
    optim,          \* version of the optimizer state (number of step() calls)
    mode,           \* net.training: "train" or "eval"
    step_files,     \* net_weights/step_<s>.pt: set of [step, weights]
    best_pt,        \* net_weights/best_results.pt: empty, or the one saved weights version
    best_txt,       \* net_weights/best_results.txt: empty, or the one [step, err] record
    tracker,        \* what was forwarded to self.tensorboard, the SummaryWriter of
                    \* the current call (line 123): set of [channel, key, iter]
    others,         \* the other log folders under self.logs_folder that hold
                    \* files written by this Trainer, as they were left: the set
                    \* of their contents (the three variables above are the
                    \* folder of the current or last call)
    start,          \* what the current call of training() found: the parameter
                    \* version and the files of its log folder
    saved,          \* history: the step_<s>.pt files the current call has written
    evals,          \* history: what the get_reco_error calls of the current
                    \* call of training() have measured (see NoEvals)
    cpc,            \* position in the constructor / loss-function machines
    grid,           \* how the caller built the mesh: [orient, x0, y0, hx, hy]
    X, Y,           \* self.X, self.Y: the coordinate arrays, indexed [i][j] from 0
    dx, dy,         \* self.dx, self.dy
    q, q_hat,       \* arguments of reconstruction_loss
    field,          \* argument of smoothness_loss
    result          \* value returned by the last loss function

trainVars == <<pc, trainsteps, test_every, save_every, tb, has_modes, step, loss,
               test_loss, reco_error, ret, best_so_far, train_loss_log,
               test_loss_log, params, optim, mode, step_files, best_pt, best_txt,
               tracker, others, start, saved, evals>>
lossVars == <<cpc, grid, X, Y, dx, dy, q, q_hat, field, result>>
vars == <<trainVars, lossVars>>

\* ------------------------------------------------------------ float helpers
\* a < b on floats: False as soon as one side is nan
Less(a, b) == a # NaN /\ b # NaN /\ a < b

RECURSIVE Pow10(_)
Pow10(n) == IF n = 0 THEN 1 ELSE 10 * Pow10(n - 1)

RECURSIVE Digits(_)
Digits(v) == IF v < 10 THEN 1 ELSE 1 + Digits(v \div 10)

\* f"{v:.3e}": one digit before and three after the point, i.e. v rounded
\* half-to-even to four significant digits; nan prints as nan
Fmt3e(v) ==
    IF v = NaN THEN NaN
    ELSE IF Digits(v) <= 4 THEN v
    ELSE LET p == Pow10(Digits(v) - 4)
             k == v \div p
             r == v % p
         IN  IF 2 * r > p \/ (2 * r = p /\ k % 2 = 1) THEN (k + 1) * p ELSE k * p

\* --------------------------------------------------- numbers as arguments
\* the integer n, or the float of that value (like the defaults 1e5, 1e3, 5e3)
Whole(n) == [num |-> n, den |-> 1]
\* the float h/2, h odd (1.5 is Half(3)); halves are exact in binary
Half(h) == [num |-> h, den |-> 2]

Abs(n) == IF n < 0 THEN -n ELSE n

\* int(r): truncation toward zero
Trunc(r) == IF r.num >= 0 THEN r.num \div r.den ELSE -((-r.num) \div r.den)

\* x % every == 0 for an integer x and a nonzero number every, with Python's
\* remainder (it has the sign of the divisor, and is zero exactly when x is a
\* whole multiple of every): x / (num/den) is whole iff num divides x * den
IsMultiple(x, every) == (x * every.den) % Abs(every.num) = 0

\* argument values other than the non-negative integers: negative ones and
\* a fractional one
Unusual == {Whole(-1), Whole(-2), Half(3)}

\* get_loss(batch): the composite loss the network yields on a fixed data set
\* is a function of the parameters and of the mode the forward pass runs in
\* (the network is an external collaborator; this is one such function, with
\* a different value for every parameter version, data set and mode)
NetLoss(set, weights, m) ==
    40 - 4 * weights + (IF set = "test" THEN 2 ELSE 0) + (IF m = "eval" THEN 1 ELSE 0)

\* ------------------------------------------------------------ Trainer.training
\* a log folder without files
EmptyFolder == [step_files |-> {}, best_pt |-> {}, best_txt |-> {}]
\* a log folder that an earlier run of another Trainer filled: two periodic
\* checkpoints and a best record
FilledFolder ==
    [step_files |-> {[step |-> 0, weights |-> 1], [step |-> 1, weights |-> 2]},
     best_pt |-> {2}, best_txt |-> {[step |-> 1, err |-> 0]}]

\* an evaluation that has not happened
NoEval == [step |-> None, err |-> None, weights |-> None]

\* what the evaluations of a call have measured so far, before any of them:
\* their number n; the last one with best_so_far before it and after its update
\* (None while the update is pending); the least error that is a number (nan
\* when there is none) and the earliest evaluation that measured it
NoEvals ==
    [n |-> 0, last |-> NoEval, before |-> None, after |-> None,
     min |-> NaN, first |-> NoEval]

\* the record h extended by the evaluation ev, which found best_so_far at b
Observe(h, ev, b) ==
    LET lower == ev.err # NaN /\ (h.min = NaN \/ ev.err < h.min)
    IN  [n |-> h.n + 1, last |-> ev, before |-> b, after |-> None,
         min |-> IF lower THEN ev.err ELSE h.min,
         first |-> IF lower THEN ev ELSE h.first]

\* no call of training() yet
NoCall ==
    /\ pc = "idle"
    /\ trainsteps = Whole(0) /\ test_every = Whole(1) /\ save_every = Whole(1)
    /\ step = 0 /\ loss = None
    /\ test_loss = None /\ reco_error = None /\ ret = None /\ best_so_far = None
    /\ train_loss_log = <<>> /\ test_loss_log = <<>>
    /\ params = 0 /\ optim = 0
    /\ tracker = {} /\ evals = NoEvals /\ saved = {}
    /\ step_files = {} /\ best_pt = {} /\ best_txt = {}
    /\ others = {}
    /\ start = [params |-> 0, folder |-> EmptyFolder]

TrainIdle ==
    /\ NoCall
    /\ tb = FALSE /\ has_modes = FALSE

LossIdle ==
    /\ cpc = "idle" /\ grid = None /\ X = None /\ Y = None
    /\ dx = None /\ dy = None /\ q = None /\ q_hat = None /\ field = None
    /\ result = None

\* state after Trainer.__init__, before training() is called: the caller hands
\* the network over in either mode, with or without a mode extractor;
\* tensorboard is installed or not (lines 9-15); no log folder is open yet
Init ==
    /\ NoCall
    /\ mode \in {"train", "eval"}
    /\ tb \in BOOLEAN /\ has_modes \in BOOLEAN
    /\ LossIdle

\* loop header `for step in range(int(trainsteps))` for the value s
LoopTo(s) == IF s < Trunc(trainsteps) THEN "get_loss" ELSE "done"

\* the files of the folder d
FolderIs(d) ==
    /\ step_files' = d.step_files /\ best_pt' = d.best_pt /\ best_txt' = d.best_txt

\* the files of the current log folder
CurrentFiles == [step_files |-> step_files, best_pt |-> best_pt, best_txt |-> best_txt]

\* the folders line 119 can name: the folder of the last call again, another
\* folder this Trainer left (same name, same minute), a folder of a new name
\* or minute (without files), or one that another run of the same name and
\* minute filled
Folders == {CurrentFiles} \cup others \cup {EmptyFolder, FilledFolder}

\* lines 118-132: the call training(ts, te, se) whose line 119 names the folder
\* with the files d.  Line 120 keeps an existing folder with its files.  The
\* parameters, the optimizer state and the mode carry over from earlier
\* calls; the locals are those of a new frame.  range(int(trainsteps)) is
\* empty for int(trainsteps) <= 0.  A folder this Trainer wrote into differs from
\* every other folder (its files hold a parameter version saved once), so
\* the left folders are kept as a set; folders without files and folders
\* filled by another run are always there to be found.
TrainingCall(ts, te, se, d) ==
    /\ pc = "idle"
    /\ trainsteps' = ts /\ test_every' = te /\ save_every' = se
    /\ pc' = IF 0 < Trunc(ts) THEN "get_loss" ELSE "done"
    /\ others' = (others \cup {CurrentFiles}) \ {d, EmptyFolder, FilledFolder}
    /\ FolderIs(d)
    /\ start' = [params |-> params, folder |-> d]
    /\ test_loss' = 0
    /\ train_loss_log' = <<>> /\ test_loss_log' = <<>>
    /\ best_so_far' = BestInit
    /\ step' = 0
    /\ loss' = None /\ reco_error' = None /\ ret' = None
    /\ saved' = {} /\ evals' = NoEvals
    /\ tracker' = {}
    /\ UNCHANGED <<tb, has_modes, params, optim, mode>>
    /\ UNCHANGED lossVars

\* largest trainsteps the model lets the next call have: MaxSteps on a
\* Trainer that has not trained yet, afterwards what is left up to MaxAgain
MostSteps == IF params = 0 THEN MaxSteps ELSE MaxAgain - params

\* the trainsteps arguments of the next call: whole, negative or fractional
StepCounts ==
    {Whole(n) : n \in 0..MostSteps} \cup {u \in Unusual : Trunc(u) <= MostSteps}

\* the test_every / save_every arguments: zero, whole, negative or fractional
Periods == {Whole(n) : n \in 0..MaxEvery} \cup Unusual

\* a call of training(), the first one or one after an earlier call ended,
\* with any arguments
Training ==
    /\ params = 0 \/ params < MaxAgain
    /\ \E ts \in StepCounts, te \in Periods, se \in Periods :
           \E d \in Folders : TrainingCall(ts, te, se, d)

\* the call training(trainsteps=10050, test_every=10050, save_every=5000) on
\* a Trainer that has not trained yet, without tensorboard, into a new folder
TrainingInstance ==
    /\ params = 0 /\ ~tb /\ ~has_modes /\ mode = "train"
    /\ TrainingCall(Whole(10050), Whole(10050), Whole(5000), EmptyFolder)

\* the frame of the call ends with its locals and its tracker; the files stay
\* in the log folder
EndFrame ==
    /\ pc' = "idle"
    /\ trainsteps' = Whole(0) /\ test_every' = Whole(1) /\ save_every' = Whole(1)
    /\ step' = 0 /\ loss' = None
    /\ test_loss' = None /\ reco_error' = None /\ ret' = None
    /\ best_so_far' = None
    /\ train_loss_log' = <<>> /\ test_loss_log' = <<>>
    /\ tracker' = {} /\ evals' = NoEvals /\ saved' = {}
    /\ start' = [params |-> params, folder |-> CurrentFiles]
    /\ UNCHANGED <<tb, has_modes, params, optim, mode, step_files, best_pt,
                   best_txt, others>>
    /\ UNCHANGED lossVars

\* line 172: return train_loss_log, test_loss_log
Return ==
    /\ pc = "done"
    /\ EndFrame

\* the ZeroDivisionError of line 141 or 144 leaves training(); the Trainer
\* stays with its parameters, and the caller may go on using it
Propagate ==
    /\ pc = "raised"
    /\ EndFrame

\* lines 62-67: test() called by the user of the Trainer while no training()
\* call is running: net.eval(), the loss without gradients, net.train()
PublicTest ==
    /\ pc = "idle"
    /\ mode' = "train"
    /\ UNCHANGED <<pc, trainsteps, test_every, save_every, tb, has_modes, step,
                   loss, test_loss, reco_error, ret, best_so_far, train_loss_log,
                   test_loss_log, params, optim, step_files, best_pt, best_txt,
                   tracker, others, start, saved, evals>>
    /\ UNCHANGED lossVars

\* lines 69-74: get_reco_error(data) called by the user of the Trainer while
\* no training() call is running (plot_test_idx_reco, lines 174-181, and
\* plot_latents, lines 218-228, switch the mode the same way)
PublicGetRecoError ==
    /\ pc = "idle"
    /\ mode' = "train"
    /\ UNCHANGED <<pc, trainsteps, test_every, save_every, tb, has_modes, step,
                   loss, test_loss, reco_error, ret, best_so_far, train_loss_log,
                   test_loss_log, params, optim, step_files, best_pt, best_txt,
                   tracker, others, start, saved, evals>>
    /\ UNCHANGED lossVars

\* line 134: loss = self.get_loss(self.train_set)
GetLoss ==
    /\ pc = "get_loss"
    /\ loss' = NetLoss("train", params, mode)
    /\ pc' = "optim_step"
    /\ UNCHANGED <<trainsteps, test_every, save_every, tb, has_modes, step,
                   test_loss, reco_error, ret, best_so_far, train_loss_log,
                   test_loss_log, params, optim, mode, step_files, best_pt,
                   best_txt, tracker, evals>>
    /\ UNCHANGED <<others, start, saved>>
    /\ UNCHANGED lossVars

\* lines 135-138: zero_grad, backward, optim.step()
OptimStep ==
    /\ pc = "optim_step"
    /\ params' = params + 1
    /\ optim' = optim + 1
    /\ pc' = "log"
    /\ UNCHANGED <<trainsteps, test_every, save_every, tb, has_modes, step, loss,
                   test_loss, reco_error, ret, best_so_far, train_loss_log,
                   test_loss_log, mode, step_files, best_pt, best_txt, tracker,
                   evals>>
    /\ UNCHANGED <<others, start, saved>>
    /\ UNCHANGED lossVars

\* the entry tagged with the one-based step
TrainEntryOneBased == <<loss, step + 1>>

\* line 140: the entry [loss.item(), step]
TrainEntry == <<loss, step>>

\* line 140: train_loss_log.append([loss.item(), step])
LogTrain ==
    /\ pc = "log"
    /\ train_loss_log' = Append(train_loss_log, TrainEntry)
    /\ pc' = "save"
    /\ UNCHANGED <<trainsteps, test_every, save_every, tb, has_modes, step, loss,
                   test_loss, reco_error, ret, best_so_far, test_loss_log, params,
                   optim, mode, step_files, best_pt, best_txt, tracker, evals>>
    /\ UNCHANGED <<others, start, saved>>
    /\ UNCHANGED lossVars

\* the cadence test written on the zero-based step
SaveDueZeroBased == IsMultiple(step, save_every)

\* line 141: (step + 1) % save_every == 0
SaveDue == IsMultiple(step + 1, save_every)

\* lines 141-142: periodic checkpoint step_<step>.pt
SaveStep ==
    /\ pc = "save"
    /\ save_every.num # 0
    /\ step_files' = IF SaveDue
                     THEN {f \in step_files : f.step # step}
                          \cup {[step |-> step, weights |-> params]}
                     ELSE step_files
    /\ saved' = IF SaveDue THEN saved \cup {[step |-> step, weights |-> params]}
                 ELSE saved
    /\ pc' = "test"
    /\ UNCHANGED <<trainsteps, test_every, save_every, tb, has_modes, step, loss,
                   test_loss, reco_error, ret, best_so_far, train_loss_log,
                   test_loss_log, params, optim, mode, best_pt, best_txt, tracker,
                   evals>>
    /\ UNCHANGED <<others, start>>
    /\ UNCHANGED lossVars

\* line 141 with save_every = 0 or 0.0: (step + 1) % 0 raises ZeroDivisionError
SaveRaise ==
    /\ pc = "save"
    /\ save_every.num = 0
    /\ pc' = "raised"
    /\ UNCHANGED <<trainsteps, test_every, save_every, tb, has_modes, step, loss,
                   test_loss, reco_error, ret, best_so_far, train_loss_log,
                   test_loss_log, params, optim, mode, step_files, best_pt,
                   best_txt, tracker, evals>>
    /\ UNCHANGED <<others, start, saved>>
    /\ UNCHANGED lossVars

\* the cadence test written on the zero-based step
TestDueZeroBased == IsMultiple(step, test_every)

\* line 144: (step + 1) % test_every == 0
TestDue == IsMultiple(step + 1, test_every)

\* line 144 with test_every = 0 or 0.0: (step + 1) % 0 raises ZeroDivisionError
TestRaise ==
    /\ pc = "test"
    /\ test_every.num = 0
    /\ pc' = "raised"
    /\ UNCHANGED <<trainsteps, test_every, save_every, tb, has_modes, step, loss,
                   test_loss, reco_error, ret, best_so_far, train_loss_log,
                   test_loss_log, params, optim, mode, step_files, best_pt,
                   best_txt, tracker, evals>>
    /\ UNCHANGED <<others, start, saved>>
    /\ UNCHANGED lossVars

\* line 144 false: skip the evaluation block
SkipTest ==
    /\ pc = "test"
    /\ test_every.num # 0
    /\ ~TestDue
    /\ pc' = "tb_train"
    /\ UNCHANGED <<trainsteps, test_every, save_every, tb, has_modes, step, loss,
                   test_loss, reco_error, ret, best_so_far, train_loss_log,
                   test_loss_log, params, optim, mode, step_files, best_pt,
                   best_txt, tracker, evals>>
    /\ UNCHANGED <<others, start, saved>>
    /\ UNCHANGED lossVars

\* lines 144-145 and 63-65: call test(); net.eval(); loss on the test set
TestCall ==
    /\ pc = "test"
    /\ test_every.num # 0
    /\ TestDue
    /\ mode' = "eval"
    /\ ret' = NetLoss("test", params, "eval")
    /\ pc' = "test_ret"
    /\ UNCHANGED <<trainsteps, test_every, save_every, tb, has_modes, step, loss,
                   test_loss, reco_error, best_so_far, train_loss_log,
                   test_loss_log, params, optim, step_files, best_pt, best_txt,
                   tracker, evals>>
    /\ UNCHANGED <<others, start, saved>>
    /\ UNCHANGED lossVars

\* test() returning without net.train()
TestReturnNoRestore ==
    /\ pc = "test_ret"
    /\ test_loss' = ret
    /\ ret' = None
    /\ pc' = "test_log"
    /\ UNCHANGED <<trainsteps, test_every, save_every, tb, has_modes, step, loss,
                   reco_error, best_so_far, train_loss_log, test_loss_log, params,
                   optim, mode, step_files, best_pt, best_txt, tracker, evals>>
    /\ UNCHANGED <<others, start, saved>>
    /\ UNCHANGED lossVars

\* lines 66-67 and 145: net.train(); return; test_loss = <returned value>
TestReturn ==
    /\ pc = "test_ret"
    /\ mode' = "train"
    /\ test_loss' = ret
    /\ ret' = None
    /\ pc' = "test_log"
    /\ UNCHANGED <<trainsteps, test_every, save_every, tb, has_modes, step, loss,
                   reco_error, best_so_far, train_loss_log, test_loss_log, params,
                   optim, step_files, best_pt, best_txt, tracker, evals>>
    /\ UNCHANGED <<others, start, saved>>
    /\ UNCHANGED lossVars

\* line 146: test_loss_log.append([test_loss.item(), step])
LogTest ==
    /\ pc = "test_log"
    /\ test_loss_log' = Append(test_loss_log, <<test_loss, step>>)
    /\ pc' = "reco"
    /\ UNCHANGED <<trainsteps, test_every, save_every, tb, has_modes, step, loss,
                   test_loss, reco_error, ret, best_so_far, train_loss_log, params,
                   optim, mode, step_files, best_pt, best_txt, tracker, evals>>
    /\ UNCHANGED <<others, start, saved>>
    /\ UNCHANGED lossVars

\* lines 148 and 70-72: call get_reco_error(test_set); net.eval(); forward pass
RecoCall ==
    /\ pc = "reco"
    /\ mode' = "eval"
    /\ \E e \in ErrVals :
        /\ ret' = e
        /\ evals' = Observe(evals, [step |-> step, err |-> e, weights |-> params],
                             best_so_far)
    /\ pc' = "reco_ret"
    /\ UNCHANGED <<trainsteps, test_every, save_every, tb, has_modes, step, loss,
                   test_loss, reco_error, best_so_far, train_loss_log,
                   test_loss_log, params, optim, step_files, best_pt, best_txt,
                   tracker>>
    /\ UNCHANGED <<others, start, saved>>
    /\ UNCHANGED lossVars

\* lines 73-74 and 148: net.train(); return the norm ratio; reco_error = it
RecoReturn ==
    /\ pc = "reco_ret"
    /\ mode' = "train"
    /\ reco_error' = ret
    /\ ret' = None
    /\ pc' = "best"
    /\ UNCHANGED <<trainsteps, test_every, save_every, tb, has_modes, step, loss,
                   test_loss, best_so_far, train_loss_log, test_loss_log, params,
                   optim, step_files, best_pt, best_txt, tracker, evals>>
    /\ UNCHANGED <<others, start, saved>>
    /\ UNCHANGED lossVars

\* line 149: reco_error < best_so_far
Improves == Less(reco_error, best_so_far)

\* lines 149-154: best-so-far update, best_results.pt and best_results.txt
BestUpdate ==
    /\ pc = "best"
    /\ IF Improves
       THEN /\ best_so_far' = reco_error
            /\ best_pt' = {params}
            /\ best_txt' = {[step |-> step, err |-> Fmt3e(reco_error)]}
       ELSE UNCHANGED <<best_so_far, best_pt, best_txt>>
    /\ evals' = [evals EXCEPT !.after = best_so_far']
    /\ pc' = "tb_eval"
    /\ UNCHANGED <<trainsteps, test_every, save_every, tb, has_modes, step, loss,
                   test_loss, reco_error, ret, train_loss_log, test_loss_log,
                   params, optim, mode, step_files, tracker>>
    /\ UNCHANGED <<others, start, saved>>
    /\ UNCHANGED lossVars

\* one add_figure / add_scalar call made during loop iteration `step`
Sent(channel, key) == [channel |-> channel, key |-> key, iter |-> step]

\* lines 156-163: what the evaluation block forwards to the tracker
EvalSent ==
    {Sent("reconstruction", step), Sent("latents", step),
     Sent("test/loss", step + 1), Sent("test/rel_Error", step + 1)}
    \cup (IF has_modes THEN {Sent("modes", step)} ELSE {})

\* lines 155-163: figures and test scalars; plot_test_idx_reco (177-180) and
\* plot_latents (219-222) both switch to eval and back to train
TbEval ==
    /\ pc = "tb_eval"
    /\ IF tb
       THEN /\ tracker' = tracker \cup EvalSent
            /\ mode' = "train"
       ELSE UNCHANGED <<tracker, mode>>
    /\ pc' = "tb_train"
    /\ UNCHANGED <<trainsteps, test_every, save_every, tb, has_modes, step, loss,
                   test_loss, reco_error, ret, best_so_far, train_loss_log,
                   test_loss_log, params, optim, step_files, best_pt, best_txt,
                   evals>>
    /\ UNCHANGED <<others, start, saved>>
    /\ UNCHANGED lossVars

\* lines 166-168: what every iteration forwards to the tracker
TrainSent == {Sent("train_loss", step + 1)}

\* lines 166-168: train_loss scalar
TbTrain ==
    /\ pc = "tb_train"
    /\ tracker' = IF tb THEN tracker \cup TrainSent ELSE tracker
    /\ pc' = "next"
    /\ UNCHANGED <<trainsteps, test_every, save_every, tb, has_modes, step, loss,
                   test_loss, reco_error, ret, best_so_far, train_loss_log,
                   test_loss_log, params, optim, mode, step_files, best_pt,
                   best_txt, evals>>
    /\ UNCHANGED <<others, start, saved>>
    /\ UNCHANGED lossVars

\* lines 170-171 and 132: progress line, then the next value of the range
NextStep ==
    /\ pc = "next"
    /\ step' = step + 1
    /\ pc' = LoopTo(step + 1)
    /\ UNCHANGED <<trainsteps, test_every, save_every, tb, has_modes, loss,
                   test_loss, reco_error, ret, best_so_far, train_loss_log,
                   test_loss_log, params, optim, mode, step_files, best_pt,
                   best_txt, tracker, evals>>
    /\ UNCHANGED <<others, start, saved>>
    /\ UNCHANGED lossVars

Next ==
    \/ Training
    \/ PublicTest
    \/ PublicGetRecoError
    \/ GetLoss
    \/ OptimStep
    \/ LogTrain
    \/ SaveStep
    \/ SkipTest
    \/ TestCall
    \/ TestReturn
    \/ LogTest
    \/ RecoCall
    \/ RecoReturn
    \/ BestUpdate
    \/ TbEval
    \/ TbTrain
    \/ NextStep
    \/ Return
    \/ SaveRaise
    \/ TestRaise
    \/ Propagate

Spec == Init /\ [][Next]_vars

\* the calls of Next and the call of the checkpoint instance
NextInstance ==
    \/ Next
    \/ TrainingInstance

SpecInstance == Init /\ [][NextInstance]_vars

TypeOK ==
    /\ pc \in {"idle", "get_loss", "optim_step", "log", "save", "test", "test_ret",
               "test_log", "reco", "reco_ret", "best", "tb_eval", "tb_train",
               "next", "done", "raised"}
    /\ step \in 0..10050
    /\ mode \in {"train", "eval"}
\* ------------------------------------------------------------ exact quotients
\* a / b in float arithmetic on exact operands: the pair is kept; b = 0 gives
\* nan (a = 0) or inf (a > 0)
Quot(a, b) == [num |-> a, den |-> b]
IsZero(r) == r.num = 0 /\ r.den # 0
IsNan(r) == r.num = 0 /\ r.den = 0
IsInf(r) == r.num # 0 /\ r.den = 0
\* r > 0 (true of inf, false of nan)
IsPositive(r) == r.num # 0 /\ r.num * r.den >= 0

RECURSIVE SumOver(_, _)
\* sum of f[x] over the finite set S in DOMAIN f
SumOver(S, f) ==
    IF S = {} THEN 0
    ELSE LET x == CHOOSE y \in S : TRUE IN f[x] + SumOver(S \ {x}, f)

\* values of a tensor entry
Vals == {-1, 0, 1}

\* ------------------------------------------------------------ Trainer.__init__
\* indices of the coordinate arrays
Idx == 0..(GridN - 1)
\* spacings and origins of the meshes handed to the constructor
Spacings == {-1, 1, 2}
OriginsX == {0}
OriginsY == {3}
\* axis-aligned uniform meshes: "xy" has X vary along the second index and Y
\* along the first (numpy.meshgrid default), "ij" the other way round
Grids == [orient : {"xy", "ij"}, x0 : OriginsX, y0 : OriginsY, hx : Spacings,
          hy : Spacings]
MeshX(g) == [i \in Idx |-> [j \in Idx |->
                g.x0 + (IF g.orient = "xy" THEN j ELSE i) * g.hx]]
MeshY(g) == [i \in Idx |-> [j \in Idx |->
                g.y0 + (IF g.orient = "xy" THEN i ELSE j) * g.hy]]

\* the spacing read off the second index only
SpacingXNoFallback(XX) == XX[0][1] - XX[0][0]

\* line 53: self.dx
SpacingX(XX) ==
    IF XX[0][1] - XX[0][0] # 0 THEN XX[0][1] - XX[0][0] ELSE XX[1][0] - XX[0][0]

\* line 54: self.dy
SpacingY(YY) ==
    IF YY[1][0] - YY[0][0] # 0 THEN YY[1][0] - YY[0][0] ELSE YY[0][1] - YY[0][0]

\* both taps left positive
KernelTapsUnsigned == <<1, 1>>

\* lines 55-56 and 59-60: torch.ones(...) / d with tap [0,0,0,0] negated; the
\* numerators of the two taps (the common denominator is dx resp. dy)
KernelTaps == <<-1, 1>>

\* state handed to Trainer.__init__: a mesh, nothing derived yet
InitGrid ==
    /\ TrainIdle /\ mode = "train"
    /\ cpc = "new"
    /\ grid \in Grids
    /\ X = MeshX(grid) /\ Y = MeshY(grid)
    /\ dx = None /\ dy = None /\ q = None /\ q_hat = None /\ field = None
    /\ result = None

\* lines 38-60: the constructor
Construct ==
    /\ cpc = "new"
    /\ dx' = SpacingX(X)
    /\ dy' = SpacingY(Y)
    /\ cpc' = "ready"
    /\ UNCHANGED <<grid, X, Y, q, q_hat, field, result>>
    /\ UNCHANGED trainVars

\* ------------------------------------------------------------ smoothness_loss
\* rows / columns of a field plane
Cells == 1..GridN
Fields == [Cells -> [Cells -> Vals]]

\* zero padding of the leading row
PadxZero(f) == [i \in 0..GridN |-> [j \in Cells |-> IF i = 0 THEN 0 ELSE f[i][j]]]

\* line 58: ReplicationPad2d(padding=[0, 0, 1, 0]): one replicated row on top
Padx(f) == [i \in 0..GridN |-> [j \in Cells |-> f[IF i = 0 THEN 1 ELSE i][j]]]

\* line 57: ReplicationPad2d(padding=[1, 0, 0, 0]): one replicated column left
Pady(f) == [i \in Cells |-> [j \in 0..GridN |-> f[i][IF j = 0 THEN 1 ELSE j]]]

\* line 84: conv2d with the 2x1 kernel (cross-correlation), numerators
ConvX(p) == [i \in Cells |-> [j \in Cells |->
                KernelTaps[1] * p[i - 1][j] + KernelTaps[2] * p[i][j]]]

\* line 85: conv2d with the 1x2 kernel, numerators
ConvY(p) == [i \in Cells |-> [j \in Cells |->
                KernelTaps[1] * p[i][j - 1] + KernelTaps[2] * p[i][j]]]

\* squared Frobenius norm of a plane
PlaneNorm2(f) == SumOver(Cells \X Cells, [c \in Cells \X Cells |-> f[c[1]][c[2]] * f[c[1]][c[2]]])

\* lines 80-88: smoothness_loss(field) for spacings ddx, ddy; the squared norm
\* ratio sum(gx^2/ddx^2 + gy^2/ddy^2) / sum(field^2) on a common denominator
smoothness_loss(f, ddx, ddy) ==
    IF PlaneNorm2(f) = 0 THEN Quot(0, 1)
    ELSE LET gx == ConvX(Padx(f))
             gy == ConvY(Pady(f))
             g2 == [c \in Cells \X Cells |->
                      gx[c[1]][c[2]] * gx[c[1]][c[2]] * ddy * ddy
                      + gy[c[1]][c[2]] * gy[c[1]][c[2]] * ddx * ddx]
         IN  Quot(SumOver(Cells \X Cells, g2), ddx * ddx * ddy * ddy * PlaneNorm2(f))

\* a call of smoothness_loss on some field
CallSmoothnessLoss ==
    /\ cpc = "ready"
    /\ \E f \in Fields :
        /\ field' = f
        /\ result' = smoothness_loss(f, dx, dy)
    /\ cpc' = "smooth"
    /\ UNCHANGED <<grid, X, Y, dx, dy, q, q_hat>>
    /\ UNCHANGED trainVars

NextGrid ==
    \/ Construct
    \/ CallSmoothnessLoss

SpecGrid == InitGrid /\ [][NextGrid]_vars

\* -------------------------------------------------------- reconstruction_loss
\* batches flattened to [batch, features] (line 77: flatten(1))
Tensors == [1..BatchN -> [1..FeatN -> Vals]]
Entries == (1..BatchN) \X (1..FeatN)

\* sum of the entries instead of the sum of their squares
EntrySum(t) == SumOver(Entries, [c \in Entries |-> t[c[1]][c[2]]])

\* squared Frobenius norm of a flattened batch
Norm2(t) == SumOver(Entries, [c \in Entries |-> t[c[1]][c[2]] * t[c[1]][c[2]]])

\* q_hat - q
Diff(a, b) == [n \in 1..BatchN |-> [k \in 1..FeatN |-> a[n][k] - b[n][k]]]

\* lines 76-78: (norm(q_hat - q) / norm(q)) ** 2
reconstruction_loss(qh, qq) == Quot(Norm2(Diff(qh, qq)), Norm2(qq))

\* the arguments of one reconstruction_loss call
InitReco ==
    /\ TrainIdle /\ mode = "train"
    /\ cpc = "args"
    /\ grid = None /\ X = None /\ Y = None /\ dx = None /\ dy = None
    /\ q \in Tensors /\ q_hat \in Tensors
    /\ field = None /\ result = None

\* the call
CallReconstructionLoss ==
    /\ cpc = "args"
    /\ result' = reconstruction_loss(q_hat, q)
    /\ cpc' = "reco"
    /\ UNCHANGED <<grid, X, Y, dx, dy, q, q_hat, field>>
    /\ UNCHANGED trainVars

NextReco == CallReconstructionLoss

SpecReco == InitReco /\ [][NextReco]_vars

\* ------------------------------------------------------ positions of the loop
\* positions of an iteration after its optimizer update (lines 135-138)
AfterOptim == {"log", "save", "test", "test_ret", "test_log", "reco", "reco_ret",
               "best", "tb_eval", "tb_train", "next"}
\* ... after its training-log append (line 140)
AfterLog == AfterOptim \ {"log"}
\* ... after its periodic-checkpoint statement (lines 141-142)
AfterSave == AfterLog \ {"save"}
\* positions inside the evaluation block (lines 145-163), test() already called
InEval == {"test_ret", "test_log", "reco", "reco_ret", "best", "tb_eval"}
\* positions at which line 146 of the current iteration is behind, if it ran
AfterTestLog == {"reco", "reco_ret", "best", "tb_eval", "tb_train", "next"}
\* positions at which line 148 of the current iteration is behind, if it ran
AfterReco == AfterTestLog \ {"reco"}

\* zero-indexed steps s < n with (s+1) % every = 0
Multiples(n, every) == {s \in 0..(n - 1) : IsMultiple(s + 1, every)}

RECURSIVE Gcd(_, _)
Gcd(a, b) == IF b = 0 THEN a ELSE Gcd(b, a % b)

\* the least positive integer that is a whole multiple of the nonzero number
\* every: the numerator of |every| in lowest terms (|every| for an integer)
Period(every) == Abs(every.num) \div Gcd(Abs(every.num), every.den)

\* floor(a / b) for numbers a and b, b nonzero
Floor(a, b) ==
    LET n == a.num * b.den
        d == a.den * b.num
    IN  IF d < 0 THEN (-n) \div (-d) ELSE n \div d
\* the statement group the call stands at; after a ZeroDivisionError the one
\* that raised it
Pos == IF pc = "raised" THEN (IF save_every.num = 0 THEN "save" ELSE "test") ELSE pc
\* iterations whose statement group ending at one of `after` has been passed
Passed(after) == IF Pos \in after THEN step + 1 ELSE step
\* number of iterations of `for step in range(int(ts))` (line 132)
Iterations(ts) == IF Trunc(ts) < 0 THEN 0 ELSE Trunc(ts)

\* the observed errors that are numbers
Numbers(S) == S \ {NaN}
\* minimum of a set of observed errors (nan when none of them is a number)
MinErr(S) == IF Numbers(S) = {} THEN NaN
             ELSE CHOOSE m \in Numbers(S) : \A e \in Numbers(S) : m <= e
\* the last evaluation has made its best-so-far update
LastCompleted == evals.n > 0 /\ evals.after # None

\* ------------------------------------------------------------------- claims

\* C1: after any number N >= 1 of evaluations, best_so_far equals the minimum
\* of all reconstruction errors those evaluations returned (of those that are
\* numbers, as soon as there is one), and it never increases from one
\* evaluation to the next.
C1_BestIsMinimumOfErrors ==
    LastCompleted =>
        /\ evals.min # NaN => best_so_far = evals.min
        /\ ~Less(evals.before, evals.after)
        /\ best_so_far = evals.after

\* What the code does hold (C1 with the initial value counted in): best_so_far
\* is the minimum of 1e12 and the numbers among the errors returned so far,
\* and never increases.
BestIsMinimumWithInitial ==
    /\ LastCompleted =>
        /\ best_so_far = MinErr({evals.min, BestInit})
        /\ ~Less(evals.before, evals.after)
        /\ best_so_far = evals.after
    /\ (evals.n > 0 /\ evals.after = None) => best_so_far = evals.before
    /\ (evals.n = 0 /\ pc # "idle") => best_so_far = BestInit

\* best_results.pt / best_results.txt hold exactly what the evaluation ev saved
HoldsEvaluation(ev) ==
    /\ best_txt = {[step |-> ev.step, err |-> Fmt3e(ev.err)]}
    /\ best_pt = {ev.weights}

\* C2: the best checkpoint and its text record are written at an evaluation
\* iff its error is strictly lower than best_so_far; consequently, after every
\* evaluation the text record holds the step and error of the earliest
\* evaluation that attained the current minimum (as soon as one error is a
\* number), and the saved weights are the parameters on which that error was
\* measured.
C2_BestFilesHoldEarliestMinimum ==
    LastCompleted =>
        /\ HoldsEvaluation(evals.last) <=> Less(evals.last.err, evals.before)
        /\ evals.min # NaN => HoldsEvaluation(evals.first)

\* What the code does hold: the files are written iff the error is strictly
\* lower than best_so_far, and whenever some error so far was below the initial
\* 1e12 they hold the earliest evaluation that attained the minimum; otherwise
\* both files are as the call found them in its log folder.
BestFilesWrittenIffStrictlyLower ==
    LastCompleted =>
        /\ HoldsEvaluation(evals.last) <=> Less(evals.last.err, evals.before)
        /\ IF MinErr({evals.min, BestInit}) = BestInit
           THEN best_txt = start.folder.best_txt /\ best_pt = start.folder.best_pt
           ELSE HoldsEvaluation(evals.first)

\* the checkpoints written so far are those of the steps s passed with
\* (s+1) % save_every = 0: every one is such a step, no step twice, and there
\* are as many as such steps
SavedAtMultiples ==
    /\ \A f \in saved : IsMultiple(f.step + 1, save_every) /\ f.step < Passed(AfterSave)
    /\ \A f, g \in saved : f.step = g.step => f = g
    /\ Cardinality(saved) = Passed(AfterSave) \div Period(save_every)

\* C3 (as claimed): a call saves step_<s>.pt at step s iff (s+1) % save_every
\* = 0, so a run of trainsteps steps produces exactly floor(trainsteps /
\* save_every) periodic checkpoints; for trainsteps = 10050 and save_every =
\* 5000 these are the steps 4999 and 9999.
C3_PeriodicCheckpointCadence ==
    save_every.num # 0 =>
        /\ SavedAtMultiples
        /\ pc = "done" => Cardinality(saved) = Floor(trainsteps, save_every)
        /\ (pc = "done" /\ trainsteps = Whole(10050) /\ save_every = Whole(5000)) =>
               {f.step : f \in saved} = {4999, 9999}

\* C3 (amended): with save_every nonzero a call saves step_<s>.pt at step s
\* iff (s+1) % save_every = 0 (Python's remainder: s+1 is a whole multiple of
\* save_every, whatever its sign), each holding the parameters after the
\* update of step s, so a call that returns has produced floor(n / p)
\* checkpoints, n = max(0, int(trainsteps)) being the iterations run and p the
\* least positive integer that is a whole multiple of save_every (save_every
\* itself when it is a positive integer); for trainsteps = 10050 and
\* save_every = 5000 these are the steps 4999 and 9999.  Files the folder held
\* before stay unless a checkpoint of the same step replaces them.  With
\* save_every = 0 the first iteration raises ZeroDivisionError after its
\* optimizer update and log entry; nothing is saved.
C3_CheckpointCadenceOfIterations ==
    /\ save_every.num # 0 =>
        /\ SavedAtMultiples
        /\ pc = "done" =>
               Cardinality(saved) = Iterations(trainsteps) \div Period(save_every)
        /\ (pc = "done" /\ trainsteps = Whole(10050) /\ save_every = Whole(5000)) =>
               {f.step : f \in saved} = {4999, 9999}
    /\ save_every.num = 0 =>
        /\ saved = {} /\ step = 0 /\ pc \notin AfterSave
        /\ pc = "raised" => (params = start.params + 1 /\ Len(train_loss_log) = 1)
    /\ \A f \in saved : f.weights = start.params + f.step + 1
    /\ step_files = saved \cup {f \in start.folder.step_files :
                                  \A g \in saved : g.step # f.step}

\* a run of 2 * save_every steps has returned with its two checkpoints, in a
\* folder that held the files of another run before: the file of step 1 is
\* replaced, that of step 0 is kept
C3_Witness ==
    /\ pc = "done" /\ save_every = Whole(2) /\ trainsteps = Whole(4)
    /\ start.folder = FilledFolder
    /\ saved = {[step |-> 1, weights |-> 2], [step |-> 3, weights |-> 4]}
    /\ step_files = saved \cup {[step |-> 0, weights |-> 1]}

\* s is a prefix of t
IsPrefix(s, t) == Len(s) <= Len(t) /\ \A i \in 1..Len(s) : t[i] = s[i]

\* the training-loss log of a call is append-only and gains one (loss, step)
\* entry per iteration, the entry at position i carrying step index i
OneEntryPerIteration ==
    /\ pc \notin {"idle", "done", "raised"} => IsPrefix(train_loss_log, train_loss_log')
    /\ Len(train_loss_log') =
           IF pc' \in AfterLog \cup {"raised"} THEN step' + 1 ELSE step'
    /\ \A i \in 1..Len(train_loss_log') : train_loss_log'[i][2] = i - 1
    /\ \A i \in 1..(Len(train_loss_log') - 1) :
           train_loss_log'[i][2] < train_loss_log'[i + 1][2]

\* C4 (as claimed): the training-loss log of a call is append-only and gains
\* exactly one (loss, step) entry per iteration: the entry at position i
\* carries step index i, indices are strictly increasing, and on return the
\* log length equals trainsteps.
C4_TrainLogOneEntryPerStep ==
    [][ /\ OneEntryPerIteration
        /\ pc' = "done" => trainsteps' = Whole(Len(train_loss_log'))
      ]_vars

\* C4 (amended): the same, and on return the log length equals
\* max(0, int(trainsteps)), the number of iterations run: a negative
\* trainsteps returns the empty log, a fractional one is truncated.  A call that ends in the ZeroDivisionError of a zero
\* save_every or test_every has made the one entry of its first iteration.
C4_TrainLogLengthIsIterations ==
    [][ /\ OneEntryPerIteration
        /\ pc' = "done" => Len(train_loss_log') = Iterations(trainsteps')
        /\ pc' = "raised" => (Len(train_loss_log') = 1 /\ 0 < Trunc(trainsteps'))
      ]_vars

\* a run of several steps has returned with its full log
C4_Witness ==
    /\ pc = "done" /\ trainsteps = Whole(3)
    /\ Len(train_loss_log) = 3 /\ train_loss_log[3][2] = 2

\* the evaluations made so far are those of the steps s passed with
\* (s+1) % test_every = 0, one test-log entry each, and each comes after the
\* optimizer update, the log entry and the periodic checkpoint of its step
EvaluatedAtMultiples ==
    /\ Len(test_loss_log) =
           Cardinality(Multiples(step, test_every))
           + (IF pc \in AfterTestLog /\ IsMultiple(step + 1, test_every) THEN 1 ELSE 0)
    /\ \A i \in 1..Len(test_loss_log) : test_loss_log[i][2] = i * Period(test_every) - 1
    /\ \A i \in 1..(Len(test_loss_log) - 1) :
           test_loss_log[i][2] < test_loss_log[i + 1][2]
    /\ evals.n =
           Cardinality(Multiples(step, test_every))
           + (IF pc \in AfterReco /\ IsMultiple(step + 1, test_every) THEN 1 ELSE 0)
    /\ evals.n > 0 => evals.last.step = evals.n * Period(test_every) - 1
    /\ pc \in InEval =>
           /\ IsMultiple(step + 1, test_every)
           /\ params = start.params + step + 1 /\ optim = params
           /\ Len(train_loss_log) = step + 1
           /\ IsMultiple(step + 1, save_every) =>
                  [step |-> step, weights |-> params] \in step_files

\* C5 (as claimed): the evaluation (test() then get_reco_error) runs at step s
\* iff (s+1) % test_every = 0 and appends exactly one (test loss, s) entry; the
\* returned test log has floor(trainsteps / test_every) entries with strictly
\* increasing steps; within a step the evaluation comes after the optimizer
\* update and after the periodic checkpoint.
C5_EvaluationCadence ==
    test_every.num # 0 =>
        /\ EvaluatedAtMultiples
        /\ pc = "done" => Len(test_loss_log) = Floor(trainsteps, test_every)

\* C5 (amended): with test_every nonzero the same ((s+1) % test_every = 0
\* with Python's remainder: s+1 is a whole multiple of test_every, whatever
\* its sign), the returned test log having floor(n / p) entries, n =
\* max(0, int(trainsteps)) being the iterations run and p the least positive
\* integer that is a whole multiple of test_every (test_every itself when it
\* is a positive integer).  With test_every = 0 no evaluation runs: the first
\* iteration raises ZeroDivisionError (at the checkpoint test when save_every
\* is 0 too, else at the evaluation test).
C5_EvaluationCadenceOfIterations ==
    /\ test_every.num # 0 =>
        /\ EvaluatedAtMultiples
        /\ pc = "done" =>
               Len(test_loss_log) = Iterations(trainsteps) \div Period(test_every)
    /\ test_every.num = 0 =>
        /\ test_loss_log = <<>> /\ evals.n = 0 /\ step = 0
        /\ pc \notin InEval \cup {"tb_train", "next"}

\* a run of two periods has returned its two-entry test log
C5_Witness ==
    /\ pc = "done" /\ trainsteps = Whole(4) /\ test_every = Whole(2)
    /\ Len(test_loss_log) = 2
    /\ test_loss_log[1][2] = 1 /\ test_loss_log[2][2] = 3
    /\ evals.n = 2

\* C6: test() and get_reco_error() leave parameters, optimizer state, logs and
\* best_so_far unchanged and return with the network in training mode, inside
\* the loop and when called between two calls of training(); every
\* training-loss computation after an evaluation runs in training mode, and the
\* parameters change only through the one optimizer step of each iteration.
C6_EvaluationIsReadOnly ==
    [][ /\ (pc \in {"test", "test_ret", "reco", "reco_ret"} /\ pc' \in InEval) =>
               UNCHANGED <<params, optim, train_loss_log, test_loss_log, best_so_far>>
        /\ pc \in {"test_ret", "reco_ret"} => mode' = "train"
        /\ (pc = "get_loss" /\ evals.n > 0) =>
               (mode = "train" /\ loss' = NetLoss("train", params, "train"))
        /\ (pc = "idle" /\ pc' = "idle") =>
               (UNCHANGED <<params, optim, train_loss_log, test_loss_log,
                            best_so_far, step_files, best_pt, best_txt>>
                /\ mode' = "train")
        /\ (params' # params \/ optim' # optim) => pc = "optim_step"
        /\ params' = start'.params
                     + (IF pc' \in AfterOptim \cup {"raised"} THEN step' + 1 ELSE step')
        /\ optim' = params'
      ]_vars

\* a training loss has been computed after an evaluation, in training mode
C6_Witness ==
    /\ pc = "optim_step" /\ evals.n > 0 /\ mode = "train"
    /\ loss = NetLoss("train", params, "train")

\* C7: with a tracker attached, every value forwarded at loop iteration `step`
\* (scalars train_loss, test/loss, test/rel_Error; figures reconstruction,
\* modes, latents) is keyed by that same step index.
C7_TrackerKeyedByStep ==
    \A t \in tracker : t.key = t.iter

\* What the code does: the figures are keyed by step, the scalars by step + 1.
TrackerKeys ==
    \A t \in tracker :
        t.key = IF t.channel \in {"reconstruction", "modes", "latents"}
                THEN t.iter ELSE t.iter + 1

\* C8 (as claimed): for every target q and prediction q_hat of the same shape,
\* reconstruction_loss(q_hat, q) is 0 when q_hat == q and strictly positive
\* otherwise.
C8_ZeroIffEqual ==
    cpc = "reco" =>
        /\ q_hat = q => IsZero(result)
        /\ q_hat # q => IsPositive(result)

\* C8 (amended): for every target q with nonzero norm, the loss is 0 when
\* q_hat == q and strictly positive (finite) otherwise; for the all-zero
\* target it is nan when q_hat == q and inf otherwise.
C8_ZeroIffEqualForNonzeroTarget ==
    cpc = "reco" =>
        IF \E c \in Entries : q[c[1]][c[2]] # 0
        THEN /\ q_hat = q => IsZero(result)
             /\ q_hat # q => (IsPositive(result) /\ ~IsInf(result))
        ELSE /\ q_hat = q => IsNan(result)
             /\ q_hat # q => IsInf(result)

\* a nonzero target was reconstructed wrongly with entries that sum to zero
C8_Witness ==
    /\ cpc = "reco" /\ q_hat # q
    /\ \E c \in Entries : q[c[1]][c[2]] # 0
    /\ \E c \in Entries : q_hat[c[1]][c[2]] - q[c[1]][c[2]] = 1
    /\ \E c \in Entries : q_hat[c[1]][c[2]] - q[c[1]][c[2]] = -1
    /\ IsPositive(result)

\* every cell of the plane holds the same value
IsConstant(f) == \A i \in Cells, j \in Cells : f[i][j] = f[1][1]

\* C9: smoothness_loss of every spatially constant field, the all-zero field
\* included, is exactly 0.
C9_ConstantFieldIsSmooth ==
    (cpc = "smooth" /\ IsConstant(field)) => IsZero(result)

\* a nonzero constant field went through the padded difference kernels
C9_Witness ==
    /\ cpc = "smooth" /\ IsConstant(field) /\ field[1][1] # 0
    /\ IsZero(result) /\ result.den # 1

\* C10: for an axis-aligned uniform grid of nonzero spacing, in either
\* orientation, dx and dy equal the true spacing along x and y and are nonzero;
\* the fallback neighbour difference is used exactly when the first candidate
\* difference is zero.
C10_SpacingIsTrueSpacing ==
    cpc # "new" =>
        /\ dx = grid.hx /\ dy = grid.hy
        /\ dx # 0 /\ dy # 0
        /\ dx = (IF X[0][1] = X[0][0] THEN X[1][0] - X[0][0] ELSE X[0][1] - X[0][0])
        /\ dy = (IF Y[1][0] = Y[0][0] THEN Y[0][1] - Y[0][0] ELSE Y[1][0] - Y[0][0])
        /\ (X[0][1] = X[0][0]) <=> (grid.orient = "ij")
        /\ (Y[1][0] = Y[0][0]) <=> (grid.orient = "ij")

\* the fallback produced both spacings of a mesh with different spacings
C10_Witness ==
    /\ cpc = "ready" /\ grid.orient = "ij" /\ grid.hx = 2 /\ grid.hy = -1
    /\ dx = 2 /\ dy = -1

====
